---- MODULE Spec2Model ----
(***************************************************************************)
(* Model of oneflow/python/ops/layers.py: the layer constructors dense,    *)
(* conv2d, layer_norm, layer_norm_grad, layer_norm_param_grad,             *)
(* batch_normalization and upsample.                                       *)
(*                                                                         *)
(* The state is the op graph the framework accumulates (`graph`: the       *)
(* get_variable requests, the operator nodes and the activation callback   *)
(* invocations, in the order the calls of this file issue them), the       *)
(* counter behind id_util.UniqueStr (`uid`), and the calls made so far     *)
(* (`calls`: function, arguments, exception raised if any, returned blob,  *)
(* and the part of the graph the call added).                              *)
(* One action per exported function; an action runs the whole function,    *)
(* up to its return or to the statement that raises.                       *)
(***************************************************************************)
EXTENDS Integers, Sequences, FiniteSets, TLC

VARIABLES graph, uid, calls

vars == <<graph, uid, calls>>

---------------------------------------------------------------------------
(* Bounds of the model *)

\* calls explored by the per-function specifications
MaxCalls == 1
\* calls explored by the naming specification
MaxNamingCalls == 2
\* dense: units ranges over 1..MaxUnits
MaxUnits == 2
\* conv2d: filters ranges over 1..MaxFilters
MaxFilters == 2
\* conv2d: integer groups range over 0..MaxGroups
MaxGroups == 2
\* batch_normalization: axis ranges over -MaxAxis..MaxAxis
MaxAxis == 4

---------------------------------------------------------------------------
(* Python values *)

\* None, and str values (name, weight_name, bias_name, activation callables)
None == [ty |-> "none", s |-> ""]
Str(s) == [ty |-> "str", s |-> s]

\* values of the arguments typed Union[int, list, tuple]: the Python type
\* and the integer elements (an int carries one element)
PyInt(i) == [ty |-> "int", v |-> <<i>>]
PyList(v) == [ty |-> "list", v |-> v]
PyTuple(v) == [ty |-> "tuple", v |-> v]
PyOther(t) == [ty |-> t, v |-> <<>>]

\* isinstance(x, int) / isinstance(x, (list, tuple))
IsInt(x) == x.ty = "int"
IsListOrTuple(x) == x.ty \in {"list", "tuple"}

\* truthiness of an Optional[str] (`weight_name if weight_name else ...`)
Truthy(x) == x.ty = "str" /\ x.s # ""

\* seq[i] with Python's negative indices; the caller keeps i in -n..n-1
PyIndex(seq, i) == IF i >= 0 THEN seq[i + 1] ELSE seq[Len(seq) + i + 1]

\* seq[b:] with Python's clamping of the start index
PySliceFrom(seq, b) ==
    LET n == Len(seq)
        lo == IF b < 0 THEN (IF n + b < 0 THEN 0 ELSE n + b)
                       ELSE (IF b > n THEN n ELSE b)
    IN  SubSeq(seq, lo + 1, n)

\* seq[:e] with Python's clamping of the stop index
PySliceTo(seq, e) ==
    LET n == Len(seq)
        hi == IF e < 0 THEN (IF n + e < 0 THEN 0 ELSE n + e)
                       ELSE (IF e > n THEN n ELSE e)
    IN  SubSeq(seq, 1, hi)

\* str.upper() on a string kept as a sequence of characters
UpperChar(c) ==
    CASE c = "n" -> "N" [] c = "c" -> "C" [] c = "h" -> "H" [] c = "w" -> "W"
      [] c = "d" -> "D" [] OTHER -> c
upper(s) == [i \in DOMAIN s |-> UpperChar(s[i])]

NCHW == <<"N", "C", "H", "W">>
NHWC == <<"N", "H", "W", "C">>

\* exceptions
NoError == "none"
AssertionError == "AssertionError"
ValueError == "ValueError"

---------------------------------------------------------------------------
(* The external framework, as far as this file drives it *)

RECURSIVE Prod(_)
Prod(s) == IF s = <<>> THEN 1 ELSE Head(s) * Prod(Tail(s))

\* id_util.UniqueStr(prefix): the prefix followed by a fresh id
UniqueStr(prefix, u) == prefix \o ToString(u)

\* distribute_util.auto(), broadcast(), split(axis): one object per value
auto == "auto"
broadcast == "broadcast"
split(axis) == "split" \o ToString(axis)

\* a blob handle: the graph entry that produced it (0: an input of the
\* job function), its static shape and dtype
\* and, for a user op, which of its declared outputs it is
Blob(id, shape, dtype) ==
    [id |-> id, shape |-> shape, dtype |-> dtype, out |-> "out"]

\* the blob produced by the last entry of graph g
Last(g) == Blob(Len(g), g[Len(g)].shape, g[Len(g)].dtype)

\* op.Build().InferAndTryRun().RemoteBlobList()[i] of the user op that is
\* the last entry of graph g
RemoteBlobList(g, i) ==
    [Last(g) EXCEPT !.out = PyIndex(g[Len(g)].attrs.outputs, i)]

\* graph entries
Entry(kind, op, name, ins, shape, dtype, attrs) ==
    [kind |-> kind, op |-> op, name |-> name, ins |-> ins, shape |-> shape,
     dtype |-> dtype, attrs |-> attrs]

\* flow.get_variable(name, shape, dtype, trainable, model_name, distribute)
get_variable(name, shape, dtype, trainable, model_name, distribute) ==
    Entry("variable", "get_variable", Str(name), <<>>, shape, dtype,
          [trainable |-> trainable, model_name |-> model_name,
           distribute |-> distribute])

\* the shape flow.reshape infers: one -1 entry takes what is left
ReshapeShape(in_shape, target) ==
    LET known == Prod([i \in DOMAIN target |->
                         IF target[i] = -1 THEN 1 ELSE target[i]])
    IN  [i \in DOMAIN target |->
           IF target[i] = -1 THEN Prod(in_shape) \div known ELSE target[i]]

\* flow.reshape(x, shape)
reshape(x, shape) ==
    Entry("op", "reshape", None, <<x.id>>, ReshapeShape(x.shape, shape),
          x.dtype, [shape |-> shape])

\* flow.matmul(a, b, transpose_b=True, name): (m, k) x (n, k)^T -> (m, n)
matmul(a, b, name) ==
    Entry("op", "matmul", Str(name), <<a.id, b.id>>,
          <<a.shape[1], b.shape[1]>>, a.dtype, [transpose_b |-> TRUE])

\* flow.nn.bias_add(value, bias, data_format, name): the shape of value
\* (data_format <<>>: not given)
bias_add(value, bias, data_format, name) ==
    Entry("op", "bias_add", Str(name), <<value.id, bias.id>>, value.shape,
          value.dtype, [data_format |-> data_format])

\* activation(out, name): the callback, elementwise on its argument
activation_call(activation, out, name) ==
    Entry("activation", activation.s, Str(name), <<out.id>>, out.shape,
          out.dtype, [x |-> 0])

\* the output shape flow.nn.conv2d infers for "VALID" padding: per spatial
\* axis (in - dilation * (k - 1) - 1) // stride + 1
ConvDim(n, k, stride, dilation) == (n - dilation * (k - 1) - 1) \div stride + 1

\* flow.nn.conv2d(inputs, weight, strides, padding, data_format,
\*                dilation_rate, groups, name)
\* (a: the arguments of the conv2d call that are passed on)
nn_conv2d(inputs, weight, kernel_size, a) ==
    LET strides == a.strides
        padding == a.padding
        data_format == a.data_format
        dilation_rate == a.dilation_rate
        groups == a.groups.v[1]
        name == a.name
        s == inputs.shape
        f == weight.shape[1]
        shape == IF upper(data_format) = NCHW
                 THEN <<s[1], f,
                        ConvDim(s[3], kernel_size[1], strides, dilation_rate),
                        ConvDim(s[4], kernel_size[2], strides, dilation_rate)>>
                 ELSE <<s[1],
                        ConvDim(s[2], kernel_size[1], strides, dilation_rate),
                        ConvDim(s[3], kernel_size[2], strides, dilation_rate),
                        f>>
    IN  Entry("op", "conv2d", name, <<inputs.id, weight.id>>, shape,
              inputs.dtype,
              [strides |-> strides, padding |-> padding,
               data_format |-> data_format, dilation_rate |-> dilation_rate,
               groups |-> groups])

\* flow.constant(value, dtype, shape)
constant(value, dtype, shape) ==
    Entry("op", "constant", None, <<>>, shape, dtype, [value |-> value])

\* flow.transpose(x, perm)
transpose(x, perm) ==
    Entry("op", "transpose", None, <<x.id>>,
          [i \in DOMAIN perm |-> PyIndex(x.shape, perm[i])], x.dtype,
          [perm |-> perm])

\* flow.user_op_builder(name).Op(op)...Build().InferAndTryRun(): the node
\* of a user op, with the inputs, outputs and attributes given to the builder
user_op(op, name, ins, shape, dtype, attrs) ==
    Entry("op", op, Str(name), ins, shape, dtype, attrs)

\* the outcome of running a function body: the graph and the UniqueStr
\* counter it leaves, the exception it raised and the blob it returned
Returned(g, u, out) == [graph |-> g, uid |-> u, err |-> NoError, ret |-> out]
Raised(g, u, e) ==
    [graph |-> g, uid |-> u, err |-> e, ret |-> Blob(0, <<>>, "")]

---------------------------------------------------------------------------
(* dense *)

\* shape=(units, inputs.shape[1]) of the weight variable
dense_weight_shape(units, x) == <<units, PyIndex(x.shape, 1)>>

\* the mutant of dense_out_shape: in_shape[:1] + (units,)
dense_out_shape_batch_only(in_shape, units) ==
    PySliceTo(in_shape, 1) \o <<units>>

\* in_shape[:-1] + (units,), the target of the final reshape
dense_out_shape(in_shape, units) == PySliceTo(in_shape, -1) \o <<units>>

\* the model_distribute values dense accepts
dense_distribute_ok(model_distribute) ==
    \/ model_distribute = auto
    \/ model_distribute = broadcast
    \/ model_distribute = split(0)

\* a: the arguments of the call; g0, u0: the graph and the UniqueStr
\* counter the call starts from
dense(a, g0, u0) ==
    LET inputs == a.inputs
        units == a.units
        activation == a.activation
        use_bias == a.use_bias
        trainable == a.trainable
        name == a.name
        model_distribute == a.model_distribute
        in_shape == inputs.shape
        in_num_axes == Len(in_shape)
    IN
    IF ~(in_num_axes >= 2) THEN Raised(g0, u0, AssertionError) ELSE
    LET name_prefix == IF name # None THEN name.s ELSE UniqueStr("Dense_", u0)
        u1 == IF name # None THEN u0 ELSE u0 + 1
        g1 == IF in_num_axes > 2
              THEN Append(g0, reshape(inputs, <<-1, PyIndex(in_shape, -1)>>))
              ELSE g0
        x == IF in_num_axes > 2 THEN Last(g1) ELSE inputs
    IN
    IF ~dense_distribute_ok(model_distribute)
    THEN Raised(g1, u1, AssertionError) ELSE
    IF model_distribute = split(0) /\ ~(in_num_axes = 2)
    THEN Raised(g1, u1, AssertionError) ELSE
    LET g2 == Append(g1, get_variable(name_prefix \o "-weight",
                                      dense_weight_shape(units, x), x.dtype,
                                      trainable, "weight", model_distribute))
        g3 == Append(g2, matmul(x, Last(g2), name_prefix \o "_matmul"))
        g4 == IF use_bias
              THEN Append(g3, get_variable(name_prefix \o "-bias", <<units>>,
                                           x.dtype, trainable, "bias",
                                           model_distribute))
              ELSE g3
        g5 == IF use_bias
              THEN Append(g4, bias_add(Last(g3), Last(g4), <<>>,
                                       name_prefix \o "_bias_add"))
              ELSE g4
        g6 == IF activation # None
              THEN Append(g5, activation_call(activation, Last(g5),
                                              name_prefix \o "_activation"))
              ELSE g5
        g7 == IF in_num_axes > 2
              THEN Append(g6, reshape(Last(g6),
                                      dense_out_shape(in_shape, units)))
              ELSE g6
    IN  Returned(g7, u1, Last(g7))

---------------------------------------------------------------------------
(* conv2d *)

\* kernel_size as the tuple conv2d makes of it (an int gives a square
\* window; a list or tuple holds height and width)
conv2d_kernel_size(kernel_size) ==
    IF IsInt(kernel_size) THEN <<kernel_size.v[1], kernel_size.v[1]>>
    ELSE kernel_size.v

\* the exception conv2d's argument checks end with, NoError when they pass
conv2d_validate(inputs, filters, kernel_size, data_format, groups) ==
    IF ~IsInt(kernel_size) /\ ~IsListOrTuple(kernel_size)
    THEN AssertionError
    ELSE IF ~IsInt(groups) THEN AssertionError
    ELSE IF ~(groups.v[1] > 0) THEN AssertionError
    ELSE IF ~(groups.v[1] <= filters) THEN AssertionError
    ELSE IF ~(filters % groups.v[1] = 0) THEN AssertionError
    ELSE IF upper(data_format) = NCHW
         THEN IF ~(groups.v[1] <= PyIndex(inputs.shape, 1))
              THEN AssertionError
              ELSE IF ~(PyIndex(inputs.shape, 1) % groups.v[1] = 0)
                   THEN AssertionError
                   ELSE NoError
    ELSE IF upper(data_format) = NHWC
         THEN IF ~(groups.v[1] = 1) THEN AssertionError
              ELSE IF ~(groups.v[1] <= PyIndex(inputs.shape, 3))
                   THEN AssertionError
                   ELSE IF ~(PyIndex(inputs.shape, 3) % groups.v[1] = 0)
                        THEN AssertionError
                        ELSE NoError
    ELSE ValueError

\* weight_shape, for arguments that passed the checks
conv2d_weight_shape(inputs, filters, ks, data_format, groups) ==
    IF upper(data_format) = NCHW
    THEN <<filters, PyIndex(inputs.shape, 1) \div groups>> \o ks
    ELSE <<filters, PyIndex(ks, 0), PyIndex(ks, 1),
           PyIndex(inputs.shape, 3) \div groups>>

\* the names conv2d requests its variables under
\* the mutant of conv2d_bias_name: the suffix of the weight
conv2d_bias_name_as_weight(name_prefix, bias_name) ==
    IF Truthy(bias_name) THEN bias_name.s ELSE name_prefix \o "-weight"

conv2d_weight_name(name_prefix, weight_name) ==
    IF Truthy(weight_name) THEN weight_name.s ELSE name_prefix \o "-weight"
conv2d_bias_name(name_prefix, bias_name) ==
    IF Truthy(bias_name) THEN bias_name.s ELSE name_prefix \o "-bias"

\* the mutant of conv2d: the activation applied to the convolution's
\* output, before the bias is added
conv2d_activation_before_bias_add(a, g0, u0) ==
    LET inputs == a.inputs
        filters == a.filters
        kernel_size == a.kernel_size
        data_format == a.data_format
        groups == a.groups
        activation == a.activation
        use_bias == a.use_bias
        trainable == a.trainable
        name == a.name
        weight_name == a.weight_name
        bias_name == a.bias_name
        name_prefix == IF name # None THEN name.s
                       ELSE UniqueStr("Conv2D_", u0)
        u1 == IF name # None THEN u0 ELSE u0 + 1
        err == conv2d_validate(inputs, filters, kernel_size, data_format,
                               groups)
    IN
    IF err # NoError THEN Raised(g0, u1, err) ELSE
    LET ks == conv2d_kernel_size(kernel_size)
        weight_shape == conv2d_weight_shape(inputs, filters, ks, data_format,
                                            groups.v[1])
        g1 == Append(g0, get_variable(
                     conv2d_weight_name(name_prefix, weight_name),
                     weight_shape, inputs.dtype, trainable, "weight",
                     "default"))
        g2 == Append(g1, nn_conv2d(inputs, Last(g1), ks, a))
        g3 == IF activation # None
              THEN Append(g2, activation_call(activation, Last(g2),
                                              name_prefix \o "-activation"))
              ELSE g2
        g4 == IF use_bias
              THEN Append(g3, get_variable(
                          conv2d_bias_name(name_prefix, bias_name),
                          <<filters>>, inputs.dtype, trainable, "bias",
                          "default"))
              ELSE g3
        g5 == IF use_bias
              THEN Append(g4, bias_add(Last(g3), Last(g4), data_format,
                                       name_prefix \o "-bias_add"))
              ELSE g4
    IN  Returned(g5, u1, Last(g5))

conv2d(a, g0, u0) ==
    LET inputs == a.inputs
        filters == a.filters
        kernel_size == a.kernel_size
        data_format == a.data_format
        groups == a.groups
        activation == a.activation
        use_bias == a.use_bias
        trainable == a.trainable
        name == a.name
        weight_name == a.weight_name
        bias_name == a.bias_name
        name_prefix == IF name # None THEN name.s
                       ELSE UniqueStr("Conv2D_", u0)
        u1 == IF name # None THEN u0 ELSE u0 + 1
        err == conv2d_validate(inputs, filters, kernel_size, data_format,
                               groups)
    IN
    IF err # NoError THEN Raised(g0, u1, err) ELSE
    LET ks == conv2d_kernel_size(kernel_size)
        weight_shape == conv2d_weight_shape(inputs, filters, ks, data_format,
                                            groups.v[1])
        g1 == Append(g0, get_variable(
                     conv2d_weight_name(name_prefix, weight_name),
                     weight_shape, inputs.dtype, trainable, "weight",
                     "default"))
        g2 == Append(g1, nn_conv2d(inputs, Last(g1), ks, a))
        g3 == IF use_bias
              THEN Append(g2, get_variable(
                          conv2d_bias_name(name_prefix, bias_name),
                          <<filters>>, inputs.dtype, trainable, "bias",
                          "default"))
              ELSE g2
        g4 == IF use_bias
              THEN Append(g3, bias_add(Last(g2), Last(g3), data_format,
                                       name_prefix \o "-bias_add"))
              ELSE g3
        g5 == IF activation # None
              THEN Append(g4, activation_call(activation, Last(g4),
                                              name_prefix \o "-activation"))
              ELSE g4
    IN  Returned(g5, u1, Last(g5))

---------------------------------------------------------------------------
(* layer_norm, layer_norm_grad, layer_norm_param_grad *)

\* param_shape = inputs.shape[begin_params_axis:]
layer_norm_param_shape(inputs, begin_params_axis) ==
    PySliceFrom(inputs.shape, begin_params_axis)

\* the mutant of layer_norm_outputs: 'normalized' declared unconditionally
layer_norm_outputs_always_normalized(scale) ==
    <<"y", "mean", "inv_variance", "normalized">>

\* the outputs the layer_norm builder declares
layer_norm_outputs(scale) ==
    <<"y", "mean", "inv_variance">>
        \o (IF scale THEN <<"normalized">> ELSE <<>>)

layer_norm(a, g0, u0) ==
    LET inputs == a.inputs
        center == a.center
        scale == a.scale
        trainable == a.trainable
        begin_norm_axis == a.begin_norm_axis
        begin_params_axis == a.begin_params_axis
        name == a.name
        name1 == IF name # None THEN name.s ELSE UniqueStr("LayerNorm_", u0)
        u1 == IF name # None THEN u0 ELSE u0 + 1
        trainable1 == IF center = FALSE /\ scale = FALSE THEN FALSE
                      ELSE trainable
        param_shape == layer_norm_param_shape(inputs, begin_params_axis)
        g1 == IF center
              THEN Append(g0, get_variable(name1 \o "-beta", param_shape,
                                           inputs.dtype, trainable1, "beta",
                                           broadcast))
              ELSE g0
        g2 == IF scale
              THEN Append(g1, get_variable(name1 \o "-gamma", param_shape,
                                           inputs.dtype, trainable1, "gamma",
                                           broadcast))
              ELSE g1
        ins == <<inputs.id>> \o (IF center THEN <<Len(g1)>> ELSE <<>>)
                             \o (IF scale THEN <<Len(g2)>> ELSE <<>>)
        g3 == Append(g2, user_op("layer_norm", name1, ins, inputs.shape,
                                 inputs.dtype,
                                 [outputs |-> layer_norm_outputs(scale),
                                  center |-> center, scale |-> scale,
                                  begin_norm_axis |-> begin_norm_axis,
                                  begin_params_axis |-> begin_params_axis]))
    IN  Returned(g3, u1, RemoteBlobList(g3, 0))

layer_norm_grad(a, g0, u0) ==
    LET dy == a.dy
        x == a.x
        mean == a.mean
        inv_variance == a.inv_variance
        begin_norm_axis == a.begin_norm_axis
        name == a.name
        name1 == IF name # None THEN name.s
                 ELSE UniqueStr("LayerNormGrad_", u0)
        u1 == IF name # None THEN u0 ELSE u0 + 1
        g1 == Append(g0, user_op("layer_norm_grad", name1,
                                 <<dy.id, x.id, mean.id, inv_variance.id>>,
                                 x.shape, x.dtype,
                                 [outputs |-> <<"dx">>,
                                  begin_norm_axis |-> begin_norm_axis]))
    IN  Returned(g1, u1, RemoteBlobList(g1, 0))

\* returns (normalized_diff, beta_diff, gamma_diff); the record keeps the
\* first of them
layer_norm_param_grad(a, g0, u0) ==
    LET dy == a.dy
        norm == a.norm
        gamma == a.gamma
        begin_params_axis == a.begin_params_axis
        name == a.name
        name1 == IF name # None THEN name.s
                 ELSE UniqueStr("LayerNormGrad_", u0)
        u1 == IF name # None THEN u0 ELSE u0 + 1
        g1 == Append(g0, user_op("layer_norm_param_grad", name1,
                                 <<dy.id, norm.id, gamma.id>>,
                                 dy.shape, dy.dtype,
                                 [outputs |-> <<"normalized_diff", "beta_diff",
                                                "gamma_diff", "reduce_buf">>,
                                  begin_params_axis |-> begin_params_axis]))
    IN  Returned(g1, u1, RemoteBlobList(g1, 0))

---------------------------------------------------------------------------
(* batch_normalization *)

\* assert axis >= -len(inputs.shape) and axis < len(inputs.shape)
batch_normalization_axis_ok(inputs, axis) ==
    axis >= -Len(inputs.shape) /\ axis < Len(inputs.shape)

\* if axis < 0: axis += len(inputs.shape)
batch_normalization_axis(inputs, axis) ==
    IF axis < 0 THEN axis + Len(inputs.shape) ELSE axis

\* is_trainable: flow.current_global_function_desc().IsTrainable()
batch_normalization(a, is_trainable, g0, u0) ==
    LET inputs == a.inputs
        axis == a.axis
        center == a.center
        scale == a.scale
        trainable == a.trainable
        training == a.training
        name == a.name
    IN
    IF ~batch_normalization_axis_ok(inputs, axis)
    THEN Raised(g0, u0, AssertionError) ELSE
    LET axis1 == batch_normalization_axis(inputs, axis)
        params_shape == <<PyIndex(inputs.shape, axis1)>>
        params_dtype == IF inputs.dtype = "float16" THEN "float32"
                        ELSE inputs.dtype
        training1 == IF ~is_trainable \/ ~trainable THEN FALSE ELSE training
        name1 == IF name = None THEN UniqueStr("BatchNorm_", u0) ELSE name.s
        u1 == IF name = None THEN u0 + 1 ELSE u0
        g1 == Append(g0, IF center
                         THEN get_variable(name1 \o "-beta", params_shape,
                                           params_dtype, trainable, "",
                                           broadcast)
                         ELSE constant(0, params_dtype, params_shape))
        g2 == Append(g1, IF scale
                         THEN get_variable(name1 \o "-gamma", params_shape,
                                           params_dtype, trainable, "",
                                           broadcast)
                         ELSE constant(1, params_dtype, params_shape))
        g3 == Append(g2, get_variable(name1 \o "-moving_mean", params_shape,
                                      params_dtype, FALSE, "", broadcast))
        g4 == Append(g3, get_variable(name1 \o "-moving_variance",
                                      params_shape, params_dtype, FALSE, "",
                                      broadcast))
        outputs == <<"y">> \o (IF trainable /\ training1
                               THEN <<"mean", "inv_variance">> ELSE <<>>)
        g5 == Append(g4, user_op("normalization", name1,
                                 <<inputs.id, Len(g3), Len(g4), Len(g2),
                                   Len(g1)>>,
                                 inputs.shape, inputs.dtype,
                                 [outputs |-> outputs, axis |-> axis1,
                                  training |-> training1]))
    IN  Returned(g5, u1, RemoteBlobList(g5, 0))

---------------------------------------------------------------------------
(* upsample *)

\* the mutant of upsample_validate: data_format compared as given
upsample_validate_case_sensitive(size, data_format, interpolation) ==
    IF ~IsInt(size) /\ ~IsListOrTuple(size) THEN AssertionError
    ELSE IF ~IsInt(size) /\ ~(Len(size.v) = 2) THEN AssertionError
    ELSE IF interpolation # "nearest" /\ interpolation # "bilinear"
         THEN ValueError
    ELSE IF data_format # NCHW /\ data_format # NHWC
         THEN ValueError
    ELSE NoError

\* the exception upsample's argument checks end with, NoError when they pass
upsample_validate(size, data_format, interpolation) ==
    IF ~IsInt(size) /\ ~IsListOrTuple(size) THEN AssertionError
    ELSE IF ~IsInt(size) /\ ~(Len(size.v) = 2) THEN AssertionError
    ELSE IF interpolation # "nearest" /\ interpolation # "bilinear"
         THEN ValueError
    ELSE IF upper(data_format) # NCHW /\ upper(data_format) # NHWC
         THEN ValueError
    ELSE NoError

\* height_scale = width_scale = size for an int, size[0] and size[1] else
upsample_height_scale(size) == size.v[1]
upsample_width_scale(size) == IF IsInt(size) THEN size.v[1] ELSE size.v[2]

\* the mutant of upsample_need_transpose: data_format compared as given
upsample_need_transpose_case_sensitive(data_format) ==
    IF data_format = NHWC THEN 1 ELSE 0

\* need_transpose: 1 when data_format.upper() == "NHWC"
upsample_need_transpose(data_format) ==
    IF upper(data_format) = NHWC THEN 1 ELSE 0

upsample(a, g0, u0) ==
    LET x == a.x
        size == a.size
        data_format == a.data_format
        interpolation == a.interpolation
        name == a.name
        name1 == IF name = None THEN UniqueStr("Upsample2D_", u0) ELSE name.s
        u1 == IF name = None THEN u0 + 1 ELSE u0
        err == upsample_validate(size, data_format, interpolation)
    IN
    IF err # NoError THEN Raised(g0, u1, err) ELSE
    LET need_transpose == upsample_need_transpose(data_format)
        g1 == IF need_transpose # 0
              THEN Append(g0, transpose(x, <<0, 3, 1, 2>>))
              ELSE g0
        x1 == IF need_transpose # 0 THEN Last(g1) ELSE x
        g2 == Append(g1, user_op("upsample", name1, <<x1.id>>,
                                 <<x1.shape[1], x1.shape[2],
                                   x1.shape[3] * upsample_height_scale(size),
                                   x1.shape[4] * upsample_width_scale(size)>>,
                                 x1.dtype,
                                 [outputs |-> <<"y">>,
                                  height_scale |-> upsample_height_scale(size),
                                  width_scale |-> upsample_width_scale(size),
                                  data_format |-> "channels_first",
                                  interpolation |-> interpolation]))
        y == RemoteBlobList(g2, 0)
        g3 == IF need_transpose # 0
              THEN Append(g2, transpose(y, <<0, 2, 3, 1>>))
              ELSE g2
        y1 == IF need_transpose # 0
              THEN [Last(g3) EXCEPT !.out = "out"] ELSE y
    IN  Returned(g3, u1, y1)

---------------------------------------------------------------------------
(* Arguments the calls are drawn from *)

Activations == {None, Str("relu")}
Names == {None, Str("fc1")}
Distributes == {auto, broadcast, split(0), split(1)}
Float32 == "float32"
Float16 == "float16"
In(shape) == Blob(0, shape, Float32)

DenseInputs == {In(<<3>>), In(<<2, 3>>), In(<<2, 3, 4>>)}

\* 4D inputs; the channels are axis 1 under NCHW and axis 3 under NHWC
ConvInputs == {In(<<1, 4, 5, 3>>), In(<<1, 1, 5, 2>>), In(<<1, 3, 4, 2>>)}
KernelSizes == {PyInt(1), PyTuple(<<1, 2>>), PyOther("str")}
DataFormats == {<<"N", "C", "H", "W">>, <<"n", "h", "w", "c">>,
                <<"N", "H", "W", "C">>, <<"N", "C", "D", "H", "W">>}
Groups == {PyOther("float")} \cup {PyInt(i) : i \in 0..MaxGroups}

NormInputs == {In(<<2, 3>>), In(<<2, 3, 4>>)}
ParamsAxes == {-5, -2, -1, 1}
BatchNormInputs == {Blob(0, <<2, 3>>, Float16), In(<<2, 3, 4, 5>>)}

UpsampleInputs == {In(<<1, 2, 3, 4>>)}
Sizes == {PyInt(2), PyTuple(<<2, 3>>), PyList(<<2, 2>>), PyList(<<2, 2, 2>>),
          PyTuple(<<2>>), PyOther("str")}
Interpolations == {"nearest", "bilinear", "bicubic"}

\* the argument sets of the per-function specifications
DenseFull ==
    [inputs |-> DenseInputs, units |-> 1..MaxUnits,
     activation |-> Activations, use_bias |-> BOOLEAN, name |-> Names,
     model_distribute |-> Distributes]
ConvFull ==
    [inputs |-> ConvInputs, filters |-> 1..MaxFilters,
     kernel_size |-> KernelSizes, data_format |-> DataFormats,
     groups |-> Groups, activation |-> {None}, use_bias |-> BOOLEAN,
     name |-> {None}, weight_name |-> {None}, bias_name |-> {None}]
LayerNormFull ==
    [inputs |-> NormInputs, center |-> BOOLEAN, scale |-> BOOLEAN,
     trainable |-> BOOLEAN, begin_params_axis |-> ParamsAxes, name |-> Names]
BatchNormFull ==
    [inputs |-> BatchNormInputs, axis |-> (-MaxAxis)..MaxAxis,
     center |-> BOOLEAN, scale |-> BOOLEAN, trainable |-> BOOLEAN,
     training |-> BOOLEAN, is_trainable |-> BOOLEAN, name |-> {None}]
UpsampleFull ==
    [x |-> UpsampleInputs, size |-> Sizes, data_format |-> DataFormats,
     interpolation |-> Interpolations, name |-> Names]

\* the argument sets of the specification of all the functions together
DenseCore ==
    [DenseFull EXCEPT !.units = {MaxUnits}, !.name = {None}]
ConvCore ==
    [ConvFull EXCEPT !.inputs = {In(<<1, 4, 5, 3>>), In(<<1, 1, 5, 2>>)},
                     !.filters = {MaxFilters},
                     !.data_format = DataFormats \ {NHWC},
                     !.activation = Activations]
LayerNormCore ==
    [LayerNormFull EXCEPT !.inputs = {In(<<2, 3>>)}, !.trainable = {TRUE},
                          !.begin_params_axis = {-1}, !.name = {None}]
BatchNormCore ==
    [BatchNormFull EXCEPT !.inputs = {In(<<2, 3>>)}, !.trainable = {TRUE},
                          !.training = {TRUE}, !.is_trainable = {TRUE}]
UpsampleCore ==
    [UpsampleFull EXCEPT !.data_format = DataFormats \ {NHWC},
                         !.name = {None}]

\* the argument sets of the naming specification: explicit names, one of
\* them of the form UniqueStr generates, and the name overrides of conv2d
NamingNames == {None, Str("fc1"), Str("Dense_0")}
Overrides == {None, Str("w")}
DenseNaming ==
    [DenseFull EXCEPT !.inputs = {In(<<2, 3>>)}, !.units = {1},
                      !.activation = {None}, !.name = NamingNames,
                      !.model_distribute = {broadcast}]
ConvNaming ==
    [ConvFull EXCEPT !.inputs = {In(<<1, 4, 5, 3>>)}, !.filters = {1},
                     !.kernel_size = {PyInt(1)}, !.data_format = {NCHW},
                     !.groups = {PyInt(1)}, !.name = NamingNames,
                     !.weight_name = Overrides, !.bias_name = Overrides]
LayerNormNaming ==
    [LayerNormCore EXCEPT !.name = NamingNames]
BatchNormNaming ==
    [BatchNormCore EXCEPT !.axis = {-1}, !.name = NamingNames]

---------------------------------------------------------------------------
(* The state machine *)

Init ==
    /\ graph = <<>>
    /\ uid = 0
    /\ calls = <<>>

\* the state after a call of fn with args whose body ended as r; the call
\* added graph entries start + 1 .. end
Finish(fn, args, r) ==
    /\ graph' = r.graph
    /\ uid' = r.uid
    /\ calls' = Append(calls, [fn |-> fn, args |-> args, start |-> Len(graph),
                               end |-> Len(r.graph), err |-> r.err,
                               ret |-> r.ret])

DenseCall(max, A) ==
    /\ Len(calls) < max
    /\ \E inputs \in A.inputs, units \in A.units,
          activation \in A.activation, use_bias \in A.use_bias,
          name \in A.name, model_distribute \in A.model_distribute :
        LET a == [inputs |-> inputs, units |-> units,
                  activation |-> activation, use_bias |-> use_bias,
                  trainable |-> TRUE, name |-> name,
                  model_distribute |-> model_distribute]
        IN  Finish("dense", a, dense(a, graph, uid))

\* strides, padding and dilation_rate keep their defaults
Conv2dCall(max, A) ==
    /\ Len(calls) < max
    /\ \E inputs \in A.inputs, filters \in A.filters,
          kernel_size \in A.kernel_size, data_format \in A.data_format,
          groups \in A.groups, activation \in A.activation,
          use_bias \in A.use_bias, name \in A.name,
          weight_name \in A.weight_name, bias_name \in A.bias_name :
        LET a == [inputs |-> inputs, filters |-> filters,
                  kernel_size |-> kernel_size, strides |-> 1,
                  padding |-> "VALID", data_format |-> data_format,
                  dilation_rate |-> 1, groups |-> groups,
                  activation |-> activation, use_bias |-> use_bias,
                  trainable |-> TRUE, name |-> name,
                  weight_name |-> weight_name, bias_name |-> bias_name]
        IN  Finish("conv2d", a, conv2d(a, graph, uid))

LayerNormCall(max, A) ==
    /\ Len(calls) < max
    /\ \E inputs \in A.inputs, center \in A.center, scale \in A.scale,
          trainable \in A.trainable,
          begin_params_axis \in A.begin_params_axis, name \in A.name :
        LET a == [inputs |-> inputs, center |-> center, scale |-> scale,
                  trainable |-> trainable, begin_norm_axis |-> 1,
                  begin_params_axis |-> begin_params_axis, name |-> name]
        IN  Finish("layer_norm", a, layer_norm(a, graph, uid))

LayerNormGradCall(max) ==
    /\ Len(calls) < max
    /\ \E x \in NormInputs, name \in Names :
        LET a == [dy |-> x, x |-> x, mean |-> In(<<x.shape[1], 1>>),
                  inv_variance |-> In(<<x.shape[1], 1>>),
                  begin_norm_axis |-> 1, name |-> name]
        IN  Finish("layer_norm_grad", a, layer_norm_grad(a, graph, uid))

LayerNormParamGradCall(max) ==
    /\ Len(calls) < max
    /\ \E dy \in NormInputs, name \in Names :
        LET a == [dy |-> dy, norm |-> dy,
                  gamma |-> In(PySliceFrom(dy.shape, -1)),
                  begin_params_axis |-> -1, name |-> name]
        IN  Finish("layer_norm_param_grad", a,
                   layer_norm_param_grad(a, graph, uid))

\* is_trainable: whether the enclosing job function is a training one
BatchNormalizationCall(max, A) ==
    /\ Len(calls) < max
    /\ \E inputs \in A.inputs, axis \in A.axis, center \in A.center,
          scale \in A.scale, trainable \in A.trainable,
          training \in A.training, is_trainable \in A.is_trainable,
          name \in A.name :
        LET a == [inputs |-> inputs, axis |-> axis, center |-> center,
                  scale |-> scale, trainable |-> trainable,
                  training |-> training, name |-> name]
        IN  Finish("batch_normalization", a,
                   batch_normalization(a, is_trainable, graph, uid))

UpsampleCall(max, A) ==
    /\ Len(calls) < max
    /\ \E x \in A.x, size \in A.size, data_format \in A.data_format,
          interpolation \in A.interpolation, name \in A.name :
        LET a == [x |-> x, size |-> size, data_format |-> data_format,
                  interpolation |-> interpolation, name |-> name]
        IN  Finish("upsample", a, upsample(a, graph, uid))

\* one function at a time, over its full argument sets
NextDense == DenseCall(MaxCalls, DenseFull)
SpecDense == Init /\ [][NextDense]_vars

NextConv == Conv2dCall(MaxCalls, ConvFull)
SpecConv == Init /\ [][NextConv]_vars

NextLayerNorm == LayerNormCall(MaxCalls, LayerNormFull)
SpecLayerNorm == Init /\ [][NextLayerNorm]_vars

NextBatchNorm == BatchNormalizationCall(MaxCalls, BatchNormFull)
SpecBatchNorm == Init /\ [][NextBatchNorm]_vars

NextUpsample == UpsampleCall(MaxCalls, UpsampleFull)
SpecUpsample == Init /\ [][NextUpsample]_vars

\* all the functions of the file
Next ==
    \/ DenseCall(MaxCalls, DenseCore)
    \/ Conv2dCall(MaxCalls, ConvCore)
    \/ LayerNormCall(MaxCalls, LayerNormCore)
    \/ LayerNormGradCall(MaxCalls)
    \/ LayerNormParamGradCall(MaxCalls)
    \/ BatchNormalizationCall(MaxCalls, BatchNormCore)
    \/ UpsampleCall(MaxCalls, UpsampleCore)
Spec == Init /\ [][Next]_vars

\* sequences of calls of the functions that register variables
NextNaming ==
    \/ DenseCall(MaxNamingCalls, DenseNaming)
    \/ Conv2dCall(MaxNamingCalls, ConvNaming)
    \/ LayerNormCall(MaxNamingCalls, LayerNormNaming)
    \/ BatchNormalizationCall(MaxNamingCalls, BatchNormNaming)
SpecNaming == Init /\ [][NextNaming]_vars

---------------------------------------------------------------------------
(* What a call did, read off the state *)

\* the graph entries call c added, in order
CallEntries(c) == SubSeq(graph, c.start + 1, c.end)
IsVariable(e) == e.kind = "variable"
IsOp(e) == e.kind = "op"
IsActivation(e) == e.kind = "activation"
CallVariables(c) == SelectSeq(CallEntries(c), IsVariable)
CallOps(c) == SelectSeq(CallEntries(c), IsOp)
CallActivations(c) == SelectSeq(CallEntries(c), IsActivation)
CallsOf(fn) == {i \in DOMAIN calls : calls[i].fn = fn}
Range(seq) == {seq[i] : i \in DOMAIN seq}

---------------------------------------------------------------------------
(* C1 *)

\* the cases C1 lists for conv2d
C1_Malformed(a) ==
    \/ ~IsInt(a.groups)
    \/ (IsInt(a.groups) /\
        LET g == a.groups.v[1]
            ch == IF upper(a.data_format) = NCHW THEN a.inputs.shape[2]
                  ELSE a.inputs.shape[4]
        IN  \/ g <= 0
            \/ g > a.filters
            \/ (g > 0 /\ a.filters % g # 0)
            \/ (upper(a.data_format) \in {NCHW, NHWC}
                /\ (ch < g \/ (g > 0 /\ ch % g # 0)))
            \/ (upper(a.data_format) = NHWC /\ g # 1))
    \/ upper(a.data_format) \notin {NCHW, NHWC}
    \/ a.kernel_size.ty \notin {"int", "list", "tuple"}

\* C1: conv2d raises ValueError in each of the listed cases (groups not a
\* positive integer, groups > filters or filters not divisible by groups,
\* data_format neither NCHW nor NHWC ignoring case, input channels smaller
\* than or not divisible by groups, NHWC with groups # 1, kernel_size not an
\* int, list or tuple), and in every other case the call passes validation
\* and creates the weight variable.
C1_conv2d_raises_ValueError ==
    \A i \in CallsOf("conv2d") :
        LET c == calls[i] IN
        IF C1_Malformed(c.args)
        THEN c.err = ValueError
        ELSE c.err = NoError /\ Len(CallVariables(c)) >= 1
             /\ CallVariables(c)[1].attrs.model_name = "weight"

---------------------------------------------------------------------------
(* C2 *)

\* C2: a call that is rejected for a malformed argument raises before it
\* registers any variable or builds any operator node: the graph is after
\* the call exactly what it was before.
C2_rejected_call_leaves_graph_unchanged ==
    \A i \in DOMAIN calls :
        calls[i].err # NoError => calls[i].end = calls[i].start

---------------------------------------------------------------------------
(* C3 *)

\* C3: every call that returns builds one or two external operator nodes
\* (variables and the activation callback not counted), whatever the
\* arguments.
C3_one_or_two_operator_nodes ==
    \A i \in DOMAIN calls :
        calls[i].err = NoError => Len(CallOps(calls[i])) \in {1, 2}

B2N(b) == IF b THEN 1 ELSE 0

\* the number of operator nodes the amended C3 gives a returning call
C3_Expected(c) ==
    CASE c.fn = "dense" ->
           1 + B2N(c.args.use_bias)
             + (IF Len(c.args.inputs.shape) > 2 THEN 2 ELSE 0)
      [] c.fn = "conv2d" -> 1 + B2N(c.args.use_bias)
      [] c.fn = "batch_normalization" ->
           1 + B2N(~c.args.center) + B2N(~c.args.scale)
      [] c.fn = "upsample" ->
           1 + (IF c.args.data_format \in {<<"n", "h", "w", "c">>,
                                           <<"N", "H", "W", "C">>}
                THEN 2 ELSE 0)
      [] OTHER -> 1

\* C3 (amended): a call that returns builds between one and four operator
\* nodes: dense the matmul, a bias_add when use_bias, and two reshapes when
\* the input has more than 2 axes; conv2d the convolution and a bias_add
\* when use_bias; batch_normalization the normalization op and a constant
\* for each of beta and gamma that is not a variable; upsample the upsample
\* op and two transposes under NHWC; layer_norm and its gradients one.
C3_one_to_four_operator_nodes ==
    \A i \in DOMAIN calls :
        calls[i].err = NoError =>
            /\ Len(CallOps(calls[i])) = C3_Expected(calls[i])
            /\ Len(CallOps(calls[i])) \in 1..4

\* a dense call on a 3-axis input with a bias has built four operator nodes
C3_Witness ==
    \E i \in CallsOf("dense") :
        /\ calls[i].err = NoError
        /\ Len(calls[i].args.inputs.shape) > 2
        /\ calls[i].args.use_bias
        /\ Len(CallOps(calls[i])) = 4

---------------------------------------------------------------------------
(* C4 *)

\* C4: a dense call that returns, on an input of shape s with n >= 2 axes,
\* creates the weight variable with shape (units, s[-1]) and returns a blob
\* of shape s[:-1] + (units,); when n > 2 the first node reshapes the input
\* to (-1, s[-1]) and the last node, after bias_add and the activation,
\* reshapes the result back; when n = 2 the call builds no reshape.
C4_dense_shapes ==
    \A i \in CallsOf("dense") :
        LET c == calls[i]
            s == c.args.inputs.shape
            n == Len(s)
            units == c.args.units
            E == CallEntries(c)
            reshapes == {k \in DOMAIN E : E[k].op = "reshape"}
            expected == [k \in 1..n |-> IF k = n THEN units ELSE s[k]]
        IN  c.err = NoError =>
            /\ n >= 2
            /\ CallVariables(c)[1].attrs.model_name = "weight"
            /\ CallVariables(c)[1].shape = <<units, s[n]>>
            /\ c.ret.shape = expected
            /\ n = 2 => reshapes = {} /\ c.ret.shape = <<s[1], units>>
            /\ n > 2 =>
                /\ reshapes = {1, Len(E)}
                /\ E[1].attrs.shape = <<-1, s[n]>>
                /\ E[1].ins = <<c.args.inputs.id>>
                /\ E[Len(E)].attrs.shape = expected
                /\ E[Len(E)].ins = <<c.start + Len(E) - 1>>
                /\ c.ret.id = c.end

\* a dense call on a 3-axis input has returned
C4_Witness ==
    \E i \in CallsOf("dense") :
        /\ calls[i].err = NoError
        /\ Len(calls[i].args.inputs.shape) = 3
        /\ calls[i].ret.shape =
             <<2, 3, calls[i].args.units>>

---------------------------------------------------------------------------
(* C5 *)

\* the cases C5 lists for dense
C5_Malformed(a) ==
    \/ Len(a.inputs.shape) < 2
    \/ a.model_distribute \notin {"auto", "broadcast", "split0"}
    \/ (a.model_distribute = "split0" /\ Len(a.inputs.shape) # 2)

\* C5: dense raises ValueError when the input has fewer than 2 axes, when
\* model_distribute is not auto, broadcast or split(0), and when it is
\* split(0) on an input that is not 2D; in every other case validation
\* passes and the same model_distribute is given to the weight variable and,
\* when use_bias, to the bias variable.
C5_dense_raises_ValueError ==
    \A i \in CallsOf("dense") :
        LET c == calls[i]
            V == CallVariables(c)
        IN  IF C5_Malformed(c.args)
            THEN c.err = ValueError
            ELSE /\ c.err = NoError
                 /\ Len(V) = 1 + B2N(c.args.use_bias)
                 /\ \A k \in DOMAIN V :
                        V[k].attrs.distribute = c.args.model_distribute

---------------------------------------------------------------------------
(* C6 *)

\* C6: batch_normalization on an input with n axes raises ValueError when
\* axis is outside -n..n-1; inside that range the op's 'axis' attribute is
\* axis when axis >= 0 and axis + n when axis < 0, lies in 0..n-1 (the
\* default -1 gives the last axis), and beta, gamma, moving_mean and
\* moving_variance all have shape [inputs.shape[that axis]].
C6_batch_normalization_axis ==
    \A i \in CallsOf("batch_normalization") :
        LET c == calls[i]
            s == c.args.inputs.shape
            n == Len(s)
            axis == c.args.axis
            E == CallEntries(c)
        IN  IF axis < -n \/ axis > n - 1
            THEN c.err = ValueError
            ELSE /\ c.err = NoError
                 /\ Len(E) = 5
                 /\ E[5].op = "normalization"
                 /\ E[5].attrs.axis = (IF axis >= 0 THEN axis ELSE axis + n)
                 /\ E[5].attrs.axis \in 0..(n - 1)
                 /\ axis = -1 => E[5].attrs.axis = n - 1
                 /\ \A k \in 1..4 : E[k].shape = <<s[E[5].attrs.axis + 1]>>

---------------------------------------------------------------------------
(* C7 *)

\* size is an int, or a list or tuple of exactly two elements
C7_SizeOk(size) ==
    size.ty = "int" \/ (size.ty \in {"list", "tuple"} /\ Len(size.v) = 2)
C7_InterpolationOk(x) == x \in {"nearest", "bilinear"}
C7_Lower(ch) ==
    CASE ch = "N" -> "n" [] ch = "C" -> "c" [] ch = "H" -> "h"
      [] ch = "W" -> "w"
C7_SameIgnoringCase(f, g) ==
    Len(f) = Len(g) /\ \A k \in DOMAIN f : f[k] \in {g[k], C7_Lower(g[k])}
C7_DataFormatOk(f) ==
    C7_SameIgnoringCase(f, NCHW) \/ C7_SameIgnoringCase(f, NHWC)

\* what upsample does with arguments it accepts, and that a rejected call
\* builds nothing
C7_Accepted(c) ==
    LET a == c.args
        E == CallEntries(c)
        up == CHOOSE k \in DOMAIN E : E[k].op = "upsample"
    IN  /\ c.err # NoError => c.end = c.start
        /\ (C7_SizeOk(a.size) /\ C7_InterpolationOk(a.interpolation)
            /\ C7_DataFormatOk(a.data_format)) =>
              /\ c.err = NoError
              /\ \E k \in DOMAIN E : E[k].op = "upsample"
              /\ E[up].attrs.height_scale = a.size.v[1]
              /\ E[up].attrs.width_scale = a.size.v[Len(a.size.v)]

\* C7: upsample raises ValueError when interpolation is neither 'nearest'
\* nor 'bilinear' and when data_format is, ignoring case, neither 'NCHW'
\* nor 'NHWC'; size is accepted only as an int (both scales) or a list or
\* tuple of exactly two elements (height_scale, width_scale) and any other
\* size is rejected; all the checks come before any node is built.
C7_upsample_raises_ValueError ==
    \A i \in CallsOf("upsample") :
        LET c == calls[i]
            a == c.args
        IN  /\ ~C7_InterpolationOk(a.interpolation) => c.err = ValueError
            /\ ~C7_DataFormatOk(a.data_format) => c.err = ValueError
            /\ ~C7_SizeOk(a.size) => c.err # NoError
            /\ C7_Accepted(c)

\* C7 (amended): the size check comes first: a size that is neither an int
\* nor a list or tuple of exactly two elements is rejected with an
\* AssertionError whatever the other arguments; for an acceptable size,
\* upsample raises ValueError when interpolation is neither 'nearest' nor
\* 'bilinear' and when data_format is, ignoring case, neither 'NCHW' nor
\* 'NHWC'; the scales are taken from size as stated, and all the checks
\* come before any node is built.
C7_upsample_size_checked_first ==
    \A i \in CallsOf("upsample") :
        LET c == calls[i]
            a == c.args
        IN  /\ ~C7_SizeOk(a.size) => c.err = AssertionError
            /\ (C7_SizeOk(a.size) /\ ~C7_InterpolationOk(a.interpolation))
                  => c.err = ValueError
            /\ (C7_SizeOk(a.size) /\ ~C7_DataFormatOk(a.data_format))
                  => c.err = ValueError
            /\ C7_Accepted(c)

\* upsample has raised ValueError for a bad interpolation given with an
\* acceptable size and an acceptable (lower-case) data_format
C7_Witness ==
    \E i \in CallsOf("upsample") :
        /\ C7_SizeOk(calls[i].args.size)
        /\ calls[i].args.interpolation = "bicubic"
        /\ calls[i].args.data_format = <<"n", "h", "w", "c">>
        /\ calls[i].err = ValueError

---------------------------------------------------------------------------
(* C8 *)

\* shape[b:] written out: the axes from b on, counted from the end when
\* b < 0
C8_ParamShape(shape, b) ==
    LET n == Len(shape)
        first == IF b >= 0 THEN b + 1
                 ELSE IF n + b >= 0 THEN n + b + 1 ELSE 1
    IN  [k \in 1..(IF first > n THEN 0 ELSE n - first + 1) |->
           shape[first + k - 1]]

\* C8: layer_norm registers the beta variable iff center and the gamma
\* variable iff scale, both with shape inputs.shape[begin_params_axis:] and
\* broadcast distribution; the op declares the outputs y, mean and
\* inv_variance always and 'normalized' iff scale; the function returns the
\* first output, y; with center and scale both false no variable is
\* registered.
C8_layer_norm_params ==
    \A i \in CallsOf("layer_norm") :
        LET c == calls[i]
            a == c.args
            V == CallVariables(c)
            E == CallEntries(c)
            roles == {V[k].attrs.model_name : k \in DOMAIN V}
            outputs == E[Len(E)].attrs.outputs
        IN  /\ c.err = NoError
            /\ ("beta" \in roles) <=> a.center
            /\ ("gamma" \in roles) <=> a.scale
            /\ roles \subseteq {"beta", "gamma"}
            /\ Len(V) = B2N(a.center) + B2N(a.scale)
            /\ \A k \in DOMAIN V :
                  /\ V[k].shape = C8_ParamShape(a.inputs.shape,
                                                a.begin_params_axis)
                  /\ V[k].attrs.distribute = "broadcast"
            /\ E[Len(E)].op = "layer_norm"
            /\ {"y", "mean", "inv_variance"} \subseteq Range(outputs)
            /\ ("normalized" \in Range(outputs)) <=> a.scale
            /\ outputs[1] = "y"
            /\ c.ret.out = "y" /\ c.ret.id = c.end
            /\ (~a.center /\ ~a.scale) => V = <<>>

\* layer_norm has been called with scale alone on a 3-axis input and
\* begin_params_axis = -2
C8_Witness ==
    \E i \in CallsOf("layer_norm") :
        /\ ~calls[i].args.center /\ calls[i].args.scale
        /\ calls[i].args.begin_params_axis = -2
        /\ Len(CallVariables(calls[i])) = 1
        /\ CallVariables(calls[i])[1].shape = <<3, 4>>

---------------------------------------------------------------------------
(* C9 *)

\* the entries of a returning dense or conv2d call, position by position
C9_Order(c) ==
    LET a == c.args
        E == CallEntries(c)
        nd == c.fn = "dense" /\ Len(a.inputs.shape) > 2
        pre == B2N(nd)
        b == B2N(a.use_bias)
        act == B2N(a.activation # None)
        main == IF c.fn = "dense" THEN "matmul" ELSE "conv2d"
        id(k) == c.start + k
    IN  /\ Len(E) = pre + 2 + 2 * b + act + pre
        /\ IsVariable(E[pre + 1])
        /\ E[pre + 1].attrs.model_name = "weight"
        /\ IsOp(E[pre + 2]) /\ E[pre + 2].op = main
        /\ id(pre + 1) \in Range(E[pre + 2].ins)
        /\ a.use_bias =>
            /\ IsVariable(E[pre + 3])
            /\ E[pre + 3].attrs.model_name = "bias"
            /\ IsOp(E[pre + 4]) /\ E[pre + 4].op = "bias_add"
            /\ E[pre + 4].ins = <<id(pre + 2), id(pre + 3)>>
        /\ a.activation # None =>
            /\ IsActivation(E[pre + 3 + 2 * b])
            /\ E[pre + 3 + 2 * b].ins = <<id(pre + 2 + 2 * b)>>
        /\ Len(CallActivations(c)) = act
        /\ nd => E[Len(E)].op = "reshape" /\ E[Len(E)].ins = <<id(Len(E) - 1)>>
        /\ c.ret.id = c.end

\* C9: in a dense or conv2d call the steps come in this order: the weight
\* variable, the main operator (matmul or conv2d), then only when use_bias
\* the bias variable followed by bias_add, then only when activation is
\* not None exactly one call of the activation on the bias-added (without
\* bias: the main operator's) output, and in dense the final reshape last;
\* the activation is never called before bias_add, never more than once,
\* and never when activation is None.
C9_steps_in_order ==
    \A i \in CallsOf("dense") \cup CallsOf("conv2d") :
        IF calls[i].err = NoError
        THEN C9_Order(calls[i])
        ELSE CallActivations(calls[i]) = <<>>
             /\ CallVariables(calls[i]) = <<>>

\* a conv2d call with a bias and an activation has returned, the activation
\* applied to the output of bias_add
C9_Witness ==
    \E i \in CallsOf("conv2d") :
        LET E == CallEntries(calls[i]) IN
        /\ calls[i].err = NoError
        /\ calls[i].args.use_bias
        /\ calls[i].args.activation # None
        /\ Len(E) = 5
        /\ E[4].op = "bias_add"
        /\ IsActivation(E[5])

---------------------------------------------------------------------------
(* C10 *)

VarNames(c) == {CallVariables(c)[k].name.s : k \in DOMAIN CallVariables(c)}

\* the names a call with the explicit name n is to request
C10_Expected(c) ==
    LET n == c.args.name.s IN
    CASE c.fn \in {"dense", "conv2d"} ->
           {n \o "-weight"}
             \cup (IF c.args.use_bias THEN {n \o "-bias"} ELSE {})
      [] c.fn = "layer_norm" ->
           (IF c.args.center THEN {n \o "-beta"} ELSE {})
             \cup (IF c.args.scale THEN {n \o "-gamma"} ELSE {})
      [] c.fn = "batch_normalization" ->
           (IF c.args.center THEN {n \o "-beta"} ELSE {})
             \cup (IF c.args.scale THEN {n \o "-gamma"} ELSE {})
             \cup {n \o "-moving_mean", n \o "-moving_variance"}

\* the strings UniqueStr has generated so far
C10_Generated ==
    {p \o ToString(k) : p \in {"Dense_", "Conv2D_", "LayerNorm_",
                               "BatchNorm_"},
                        k \in 0..uid}

\* conv2d called with weight_name or bias_name
C10_Overrides(c) ==
    c.fn = "conv2d" /\ (c.args.weight_name # None \/ c.args.bias_name # None)

\* C10: over any sequence of calls of dense, conv2d, layer_norm and
\* batch_normalization, UniqueStr never repeating: the variable names
\* requested by a call made with name=None are disjoint from those of every
\* earlier call; a call given an explicit name requests '<name>-weight',
\* '<name>-bias', '<name>-beta', '<name>-gamma', '<name>-moving_mean',
\* '<name>-moving_variance', so that two calls given the same name request
\* identical names; within one call the names are pairwise distinct.
C10_variable_names ==
    /\ \A j \in DOMAIN calls : \A i \in 1..(j - 1) :
          calls[j].args.name = None =>
              VarNames(calls[i]) \cap VarNames(calls[j]) = {}
    /\ \A i \in DOMAIN calls :
          /\ calls[i].args.name # None =>
                VarNames(calls[i]) = C10_Expected(calls[i])
          /\ Cardinality(VarNames(calls[i])) = Len(CallVariables(calls[i]))

\* C10 (amended): the same three statements, for the calls of conv2d that
\* pass neither weight_name nor bias_name (an override is requested as
\* given, whatever the name of the call), and with a call made with
\* name=None compared with the earlier calls whose explicit name is not
\* itself a string UniqueStr generates.
C10_variable_names_without_overrides ==
    /\ \A j \in DOMAIN calls : \A i \in 1..(j - 1) :
          (/\ calls[j].args.name = None
           /\ ~C10_Overrides(calls[i]) /\ ~C10_Overrides(calls[j])
           /\ calls[i].args.name.s \notin C10_Generated) =>
              VarNames(calls[i]) \cap VarNames(calls[j]) = {}
    /\ \A i \in DOMAIN calls :
          ~C10_Overrides(calls[i]) =>
          /\ calls[i].args.name # None =>
                VarNames(calls[i]) = C10_Expected(calls[i])
          /\ Cardinality(VarNames(calls[i])) = Len(CallVariables(calls[i]))

\* an unnamed dense call and an unnamed conv2d call without overrides have
\* each registered a weight and a bias, under four different names
C10_Witness ==
    /\ Len(calls) = 2
    /\ calls[1].fn = "dense" /\ calls[2].fn = "conv2d"
    /\ calls[1].args.name = None /\ calls[2].args.name = None
    /\ ~C10_Overrides(calls[2])
    /\ Len(CallVariables(calls[1])) = 2 /\ Len(CallVariables(calls[2])) = 2
    /\ Cardinality(VarNames(calls[1]) \cup VarNames(calls[2])) = 4

====
